---- MODULE Spec2Model ----
(***************************************************************************)
(* A model of cvxkerb-js: the free-flight physics integrator               *)
(* (src/src/simulation/PhysicsEngine.ts), the G-FOLD guidance solve        *)
(* (src/src/simulation/GFoldSolver.ts), the simulation store               *)
(* (stores/simulationStore.ts, src/unnamed/part_004), the handlers of the  *)
(* control panel and of the App component (src/src/App.tsx) and the        *)
(* playback view (src/src/components/Scene.tsx, src/src/ui/Telemetry.tsx). *)
(*                                                                         *)
(* Numbers.  The program computes in IEEE doubles.  The model computes in  *)
(* exact arithmetic: the physics on integers (the configurations are       *)
(* chosen so that maxThrust / mass is exact), the conic program and the    *)
(* playback time on rationals <<n, d>> with d > 0.                          *)
(***************************************************************************)
EXTENDS Integers, Sequences, FiniteSets, TLC

VARIABLES
    simplePhysics,   \* PhysicsState held by the store (simulationStore.simplePhysics)
    simpleConfig,    \* PhysicsConfig held by the store (simulationStore.simpleConfig)
    wasmLoaded,      \* GFoldSolver.ts module variable
    pc,              \* where the solveLanding call is
    params,          \* the LandingParams of the call
    solution,        \* what Problem.minimize(..).solve() resolved to
    outcome,         \* what the solveLanding promise settled to
    simulationMode,  \* simulationStore.simulationMode
    storeParams,     \* simulationStore.params
    trajectory,      \* simulationStore.trajectory
    status,          \* simulationStore.status
    errorMessage,    \* simulationStore.errorMessage
    playbackTime,    \* simulationStore.playbackTime
    calls,           \* the solveLanding calls the handlers await, oldest first
    requested,       \* the number of solveLanding calls the handlers have made
    settled,         \* the call that settled last, with what it settled to
    rendered         \* the frame last rendered by Scene and Telemetry

physVars == <<simplePhysics, simpleConfig>>
solveVars == <<wasmLoaded, pc, params, solution, outcome>>
storeVars ==
    <<simulationMode, storeParams, trajectory, status, errorMessage, playbackTime>>
callVars == <<calls, requested, settled>>
appVars == <<storeVars, callVars, rendered>>
vars ==
    <<simplePhysics, simpleConfig, wasmLoaded, pc, params, solution, outcome,
      simulationMode, storeParams, trajectory, status, errorMessage, playbackTime,
      calls, requested, settled, rendered>>

Abs(x) == IF x < 0 THEN -x ELSE x

----------------------------------------------------------------------------
(* PhysicsEngine.ts                                                        *)

\* Bound on the simulated time of a flight (ticks stop being delivered).
MaxElapsed == 6

SAFE_LANDING_SPEED == 5

Gravities == {1, 4}
Masses == {1, 2}
MaxThrusts == {0, 8}
BurnDurations == {0, 2}
Dts == {1, 2}
GroundHeights == {0, 10, 20, 25}

PhysicsConfigs ==
    [gravity : Gravities, mass : Masses, maxThrust : MaxThrusts,
     burnDuration : BurnDurations]

createInitialState ==
    [position |-> <<0, 0, 25>>,
     velocity |-> <<0, 0, 0>>,
     thrust |-> <<0, 0, 0>>,
     elapsedTime |-> 0,
     isEngineOn |-> TRUE,
     hasCrashed |-> FALSE,
     hasLandedSafely |-> FALSE]

\* Mutant: the cut-off looks at the elapsed time before the tick.
engineOnBefore(state, config, dt) ==
    state.elapsedTime < config.burnDuration

\* Lines 43-46: the engine is on while the new elapsed time is below the
\* burn duration.
engineOnAfter(state, config, dt) ==
    state.elapsedTime + dt < config.burnDuration

\* Lines 49-57: the vertical acceleration of the tick.
accelZ(state, config, dt) ==
    IF engineOnAfter(state, config, dt)
    THEN -config.gravity + (config.maxThrust \div config.mass)
    ELSE -config.gravity

\* Mutant: the acceleration is added on every axis.
newVelocityAllAxes(state, config, dt) ==
    <<state.velocity[1] + accelZ(state, config, dt) * dt,
      state.velocity[2] + accelZ(state, config, dt) * dt,
      state.velocity[3] + accelZ(state, config, dt) * dt>>

\* Lines 61-65.
newVelocity(state, config, dt) ==
    <<state.velocity[1], state.velocity[2],
      state.velocity[3] + accelZ(state, config, dt) * dt>>

\* Mutant: explicit Euler, the position moves by the velocity before the tick.
newPositionExplicit(state, config, dt) ==
    <<state.position[1] + state.velocity[1] * dt,
      state.position[2] + state.velocity[2] * dt,
      state.position[3] + state.velocity[3] * dt>>

\* Lines 67-71: the position moves by the new velocity.
newPosition(state, config, dt) ==
    LET v == newVelocity(state, config, dt)
    IN  <<state.position[1] + v[1] * dt,
          state.position[2] + v[2] * dt,
          state.position[3] + v[3] * dt>>

\* Line 74.
groundCollision(state, config, dt, groundHeight) ==
    /\ newPosition(state, config, dt)[3] <= groundHeight
    /\ newVelocity(state, config, dt)[3] < 0

\* Mutant: the collision of line 76 leaves the position where the step put it.
stepBodyInNoClamp(perMetrePerSecond, state, config, dt, groundHeight) ==
    LET velocity == newVelocity(state, config, dt)
        position == newPosition(state, config, dt)
        collided == groundCollision(state, config, dt, groundHeight)
        safe == Abs(velocity[3]) < SAFE_LANDING_SPEED * perMetrePerSecond
    IN  [position |-> position,
         velocity |-> IF collided /\ safe THEN <<0, 0, 0>> ELSE velocity,
         thrust |-> IF engineOnAfter(state, config, dt)
                    THEN <<0, 0, config.maxThrust>> ELSE <<0, 0, 0>>,
         elapsedTime |-> state.elapsedTime + dt,
         isEngineOn |-> engineOnAfter(state, config, dt),
         hasCrashed |-> IF collided /\ ~safe THEN TRUE ELSE state.hasCrashed,
         hasLandedSafely |-> IF collided /\ safe THEN TRUE
                             ELSE state.hasLandedSafely]

\* Mutant: a collision puts the altitude at 0, whatever the ground height.
stepBodyInClampToZero(perMetrePerSecond, state, config, dt, groundHeight) ==
    LET velocity == newVelocity(state, config, dt)
        position == newPosition(state, config, dt)
        collided == groundCollision(state, config, dt, groundHeight)
        safe == Abs(velocity[3]) < SAFE_LANDING_SPEED * perMetrePerSecond
    IN  [position |-> IF collided
                      THEN <<position[1], position[2], 0>>
                      ELSE position,
         velocity |-> IF collided /\ safe THEN <<0, 0, 0>> ELSE velocity,
         thrust |-> IF engineOnAfter(state, config, dt)
                    THEN <<0, 0, config.maxThrust>> ELSE <<0, 0, 0>>,
         elapsedTime |-> state.elapsedTime + dt,
         isEngineOn |-> engineOnAfter(state, config, dt),
         hasCrashed |-> IF collided /\ ~safe THEN TRUE ELSE state.hasCrashed,
         hasLandedSafely |-> IF collided /\ safe THEN TRUE
                             ELSE state.hasLandedSafely]

\* Mutant: an impact at exactly the safe landing speed counts as safe.
stepBodyInSafeAtThreshold(perMetrePerSecond, state, config, dt, groundHeight) ==
    LET velocity == newVelocity(state, config, dt)
        position == newPosition(state, config, dt)
        collided == groundCollision(state, config, dt, groundHeight)
        safe == Abs(velocity[3]) <= SAFE_LANDING_SPEED * perMetrePerSecond
    IN  [position |-> IF collided
                      THEN <<position[1], position[2], groundHeight>>
                      ELSE position,
         velocity |-> IF collided /\ safe THEN <<0, 0, 0>> ELSE velocity,
         thrust |-> IF engineOnAfter(state, config, dt)
                    THEN <<0, 0, config.maxThrust>> ELSE <<0, 0, 0>>,
         elapsedTime |-> state.elapsedTime + dt,
         isEngineOn |-> engineOnAfter(state, config, dt),
         hasCrashed |-> IF collided /\ ~safe THEN TRUE ELSE state.hasCrashed,
         hasLandedSafely |-> IF collided /\ safe THEN TRUE
                             ELSE state.hasLandedSafely]

\* Lines 42-88: the tick of a state that is not over, with the speeds counted
\* in units of which perMetrePerSecond make 1 m/s (SAFE_LANDING_SPEED, the
\* one dimensioned constant of the function, is in m/s).
stepBodyIn(perMetrePerSecond, state, config, dt, groundHeight) ==
    LET velocity == newVelocity(state, config, dt)
        position == newPosition(state, config, dt)
        collided == groundCollision(state, config, dt, groundHeight)
        safe == Abs(velocity[3]) < SAFE_LANDING_SPEED * perMetrePerSecond
    IN  [position |-> IF collided
                      THEN <<position[1], position[2], groundHeight>>
                      ELSE position,
         velocity |-> IF collided /\ safe THEN <<0, 0, 0>> ELSE velocity,
         thrust |-> IF engineOnAfter(state, config, dt)
                    THEN <<0, 0, config.maxThrust>> ELSE <<0, 0, 0>>,
         elapsedTime |-> state.elapsedTime + dt,
         isEngineOn |-> engineOnAfter(state, config, dt),
         hasCrashed |-> IF collided /\ ~safe THEN TRUE ELSE state.hasCrashed,
         hasLandedSafely |-> IF collided /\ safe THEN TRUE
                             ELSE state.hasLandedSafely]

\* Lines 42-88 in metres and seconds.
stepBody(state, config, dt, groundHeight) ==
    stepBodyIn(1, state, config, dt, groundHeight)

\* Mutant: the tick without the early return of line 40.
stepPhysicsNoGuard(state, config, dt, groundHeight) ==
    stepBody(state, config, dt, groundHeight)

\* Mutant: the crash flag is set on every collision (the else of line 83 lost).
stepPhysicsBothFlags(state, config, dt, groundHeight) ==
    IF state.hasCrashed \/ state.hasLandedSafely THEN state
    ELSE LET s == stepBody(state, config, dt, groundHeight)
         IN  [s EXCEPT !.hasCrashed = s.hasCrashed \/ s.hasLandedSafely]

stepPhysics(state, config, dt, groundHeight) ==
    IF state.hasCrashed \/ state.hasLandedSafely THEN state
    ELSE stepBody(state, config, dt, groundHeight)

Terminal(state) == state.hasCrashed \/ state.hasLandedSafely

\* Lines 33-89 with the speeds in units of which perMetrePerSecond make 1 m/s.
stepPhysicsIn(perMetrePerSecond, state, config, dt, groundHeight) ==
    IF state.hasCrashed \/ state.hasLandedSafely THEN state
    ELSE stepBodyIn(perMetrePerSecond, state, config, dt, groundHeight)

(* The flight on the Mars pad: gravity 3.72 m/s^2, mass 25000 kg, maxThrust *)
(* 800000 N, burnDuration 10 s, ticks of 0.1 s, ground at 0.  Every number  *)
(* of it is an integer once time is counted in ticks and length in           *)
(* 1/10000 m: a speed of 1 m/s is 1000 units, an acceleration of 1 m/s^2 is  *)
(* 100 units, and maxThrust / mass = 32 m/s^2 is 3200 units.                 *)
TicksPerSecond == 10
UnitsPerMetre == 10000
UnitsPerMetrePerSecond == UnitsPerMetre \div TicksPerSecond

\* createInitialState() (lines 21-31) in these units.
flightInitialState ==
    [createInitialState EXCEPT
        !.position = <<0, 0, createInitialState.position[3] * UnitsPerMetre>>]

\* The config of the flight in these units; the thrust is in units of force
\* that give maxThrust / mass the acceleration 3200.
flightConfig ==
    [gravity |-> 372, mass |-> 25000, maxThrust |-> 80000000,
     burnDuration |-> 10 * TicksPerSecond]

\* elapsedTime is a sum of doubles 0.1, which after 100 ticks is
\* 9.99999999999998 and still below burnDuration 10: the program's engine
\* burns on the 100th tick, where the exact sum would turn it off.  The
\* flight is taken both ways: with the exact comparison, and with the
\* comparison the doubles make (the one of an exact burnDuration of 101 ticks).
FlightConfigs ==
    {flightConfig,
     [flightConfig EXCEPT !.burnDuration = flightConfig.burnDuration + 1]}

\* One tick of the flight: stepPhysics(state, config, 0.1) with groundHeight
\* at its default 0.
FlightTick ==
    /\ simplePhysics' =
          stepPhysicsIn(UnitsPerMetrePerSecond, simplePhysics, simpleConfig, 1, 0)
    /\ UNCHANGED <<simpleConfig, solveVars, appVars>>

\* The velocities of the states stepPhysics is given in StepSpec.
StepVelocities == {<<0, 0, 0>>, <<3, -2, 0>>, <<-1, 2, -4>>}

\* One animation tick of the simple-physics mode.
Tick ==
    /\ simplePhysics.elapsedTime < MaxElapsed
    /\ \E dt \in Dts, groundHeight \in GroundHeights :
          simplePhysics' = stepPhysics(simplePhysics, simpleConfig, dt, groundHeight)
    /\ UNCHANGED <<simpleConfig, solveVars, appVars>>

\* App.tsx lines 633-637, "Launch" of the simple-physics panel (rendered in
\* the simple mode, disabled while status is 'simpleRunning'): a fresh flight.
handleSimpleLaunch ==
    /\ simulationMode = "simple"
    /\ status # "simpleRunning"
    /\ simplePhysics' = createInitialState
    /\ status' = "simpleRunning"
    /\ UNCHANGED <<simpleConfig, solveVars, simulationMode, storeParams,
                   trajectory, errorMessage, playbackTime, callVars, rendered>>

\* App.tsx lines 639-642, "Reset" of the simple-physics panel (rendered when
\* status is 'crashed', 'landed' or 'simpleRunning').
handleSimpleReset ==
    /\ simulationMode = "simple"
    /\ status \in {"crashed", "landed", "simpleRunning"}
    /\ simplePhysics' = createInitialState
    /\ status' = "idle"
    /\ UNCHANGED <<simpleConfig, solveVars, simulationMode, storeParams,
                   trajectory, errorMessage, playbackTime, callVars, rendered>>

\* "Simple Physics" of the mode selector (App.tsx line 693):
\* handleSimpleReset(); setSimulationMode('simple').
selectSimpleMode ==
    /\ simplePhysics' = createInitialState
    /\ status' = "idle"
    /\ simulationMode' = "simple"
    /\ UNCHANGED <<simpleConfig, solveVars, storeParams, trajectory,
                   errorMessage, playbackTime, callVars, rendered>>

\* A slider of the simple-physics panel replaces one field of the config
\* (setSimpleConfig); the sliders are disabled while status is 'simpleRunning'.
setSimpleConfig ==
    /\ simulationMode = "simple"
    /\ status # "simpleRunning"
    /\ \E c \in PhysicsConfigs :
          /\ c # simpleConfig
          /\ Cardinality({f \in DOMAIN c : c[f] # simpleConfig[f]}) = 1
          /\ simpleConfig' = c
    /\ UNCHANGED <<simplePhysics, solveVars, appVars>>

----------------------------------------------------------------------------
(* Exact rational arithmetic for the conic program: <<n, d>> with d > 0.   *)

R(n) == <<n, 1>>
RDiv(n, d) == IF d < 0 THEN <<-n, -d>> ELSE <<n, d>>
RAdd(a, b) == <<a[1] * b[2] + b[1] * a[2], a[2] * b[2]>>
RSub(a, b) == <<a[1] * b[2] - b[1] * a[2], a[2] * b[2]>>
RMul(a, b) == <<a[1] * b[1], a[2] * b[2]>>
REq(a, b) == a[1] * b[2] = b[1] * a[2]
RLe(a, b) == a[1] * b[2] <= b[1] * a[2]

RECURSIVE RSum(_)
RSum(s) == IF s = <<>> THEN R(0) ELSE RAdd(s[1], RSum(Tail(s)))

RECURSIVE Flatten(_)
Flatten(ss) == IF ss = <<>> THEN <<>> ELSE ss[1] \o Flatten(Tail(ss))

----------------------------------------------------------------------------
(* cvxjs: expressions and constraints as the program builds them.  A       *)
(* variable's identity is <<name, k>>; the library gives each a fresh id.  *)

variable(id) == [kind |-> "variable", id |-> id]
constant(c) == [kind |-> "constant", value |-> c]
add(a, b) == [kind |-> "add", a |-> a, b |-> b]
sub(a, b) == [kind |-> "sub", a |-> a, b |-> b]
mul(c, a) == [kind |-> "mul", c |-> c, a |-> a]
vstack(args) == [kind |-> "vstack", args |-> args]
sum(a) == [kind |-> "sum", a |-> a]
eq(l, r) == [kind |-> "eq", l |-> l, r |-> r]
ge(l, r) == [kind |-> "ge", l |-> l, r |-> r]
le(l, r) == [kind |-> "le", l |-> l, r |-> r]
soc(x, t) == [kind |-> "soc", x |-> x, t |-> t]

\* The value of an expression under an assignment of the variables.
RECURSIVE Eval(_, _)
Eval(e, a) ==
    CASE e.kind = "variable" -> R(a[e.id])
      [] e.kind = "constant" -> e.value
      [] e.kind = "add" -> RAdd(Eval(e.a, a), Eval(e.b, a))
      [] e.kind = "sub" -> RSub(Eval(e.a, a), Eval(e.b, a))
      [] e.kind = "mul" -> RMul(e.c, Eval(e.a, a))
      [] e.kind = "sum" ->
            IF e.a.kind = "vstack"
            THEN RSum([i \in 1..Len(e.a.args) |-> Eval(e.a.args[i], a)])
            ELSE Eval(e.a, a)

EvalVec(e, a) ==
    IF e.kind = "vstack" THEN [i \in 1..Len(e.args) |-> Eval(e.args[i], a)]
    ELSE <<Eval(e, a)>>

RECURSIVE VarsOf(_)
VarsOf(e) ==
    CASE e.kind = "variable" -> {e.id}
      [] e.kind = "constant" -> {}
      [] e.kind \in {"add", "sub"} -> VarsOf(e.a) \cup VarsOf(e.b)
      [] e.kind \in {"mul", "sum"} -> VarsOf(e.a)
      [] e.kind = "vstack" -> UNION {VarsOf(e.args[i]) : i \in 1..Len(e.args)}
      [] e.kind \in {"eq", "ge", "le"} -> VarsOf(e.l) \cup VarsOf(e.r)
      [] e.kind = "soc" -> VarsOf(e.x) \cup VarsOf(e.t)

\* Whether an assignment satisfies a constraint: eq, ge, le between affine
\* expressions, soc(x, t) the second-order cone ||x||_2 <= t.
Holds(c, a) ==
    CASE c.kind = "eq" -> REq(Eval(c.l, a), Eval(c.r, a))
      [] c.kind = "ge" -> RLe(Eval(c.r, a), Eval(c.l, a))
      [] c.kind = "le" -> RLe(Eval(c.l, a), Eval(c.r, a))
      [] c.kind = "soc" ->
            LET x == EvalVec(c.x, a)
                t == Eval(c.t, a)
            IN  /\ RLe(R(0), t)
                /\ RLe(RSum([i \in 1..Len(x) |-> RMul(x[i], x[i])]), RMul(t, t))

----------------------------------------------------------------------------
(* GFoldSolver.ts: the conic program of solveLanding.                      *)
(* Vectors of the program are indexed from 0, sequences here from 1:       *)
(* p.v0[1] is v0[0], positions[k + 1] is positions[k].                      *)

Vx(k) == variable(<<"Vx", k>>)
Vy(k) == variable(<<"Vy", k>>)
Vz(k) == variable(<<"Vz", k>>)
Px(k) == variable(<<"Px", k>>)
Py(k) == variable(<<"Py", k>>)
Pz(k) == variable(<<"Pz", k>>)
Fx(k) == variable(<<"Fx", k>>)
Fy(k) == variable(<<"Fy", k>>)
Fz(k) == variable(<<"Fz", k>>)
gamma(k) == variable(<<"gamma", k>>)

\* Mutant: the final velocity is left free (lines 79-81 lost).
boundaryConstraintsNoFinalVelocity(p) ==
    << eq(Vx(0), constant(R(p.v0[1]))),
       eq(Vy(0), constant(R(p.v0[2]))),
       eq(Vz(0), constant(R(p.v0[3]))),
       eq(Px(0), constant(R(p.p0[1]))),
       eq(Py(0), constant(R(p.p0[2]))),
       eq(Pz(0), constant(R(p.p0[3]))),
       eq(Px(p.K), constant(R(p.p_target[1]))),
       eq(Py(p.K), constant(R(p.p_target[2]))),
       eq(Pz(p.K), constant(R(p.p_target[3]))) >>

\* Mutant: the final position is tied to p0 in place of p_target.
boundaryConstraintsFinalAtStart(p) ==
    << eq(Vx(0), constant(R(p.v0[1]))),
       eq(Vy(0), constant(R(p.v0[2]))),
       eq(Vz(0), constant(R(p.v0[3]))),
       eq(Px(0), constant(R(p.p0[1]))),
       eq(Py(0), constant(R(p.p0[2]))),
       eq(Pz(0), constant(R(p.p0[3]))),
       eq(Vx(p.K), constant(R(0))),
       eq(Vy(p.K), constant(R(0))),
       eq(Vz(p.K), constant(R(0))),
       eq(Px(p.K), constant(R(p.p0[1]))),
       eq(Py(p.K), constant(R(p.p0[2]))),
       eq(Pz(p.K), constant(R(p.p0[3]))) >>

\* Lines 67-86.
boundaryConstraints(p) ==
    << eq(Vx(0), constant(R(p.v0[1]))),
       eq(Vy(0), constant(R(p.v0[2]))),
       eq(Vz(0), constant(R(p.v0[3]))),
       eq(Px(0), constant(R(p.p0[1]))),
       eq(Py(0), constant(R(p.p0[2]))),
       eq(Pz(0), constant(R(p.p0[3]))),
       eq(Vx(p.K), constant(R(0))),
       eq(Vy(p.K), constant(R(0))),
       eq(Vz(p.K), constant(R(0))),
       eq(Px(p.K), constant(R(p.p_target[1]))),
       eq(Py(p.K), constant(R(p.p_target[2]))),
       eq(Pz(p.K), constant(R(p.p_target[3]))) >>

\* Mutant: the position moves by the old velocity alone (explicit Euler).
dynamicsConstraintsExplicitEuler(p, k) ==
    << eq(Vx(k + 1), add(Vx(k), mul(RDiv(p.h, p.m), Fx(k)))),
       eq(Vy(k + 1), add(Vy(k), mul(RDiv(p.h, p.m), Fy(k)))),
       eq(Vz(k + 1), sub(add(Vz(k), mul(RDiv(p.h, p.m), Fz(k))),
                         constant(R(p.h * p.g)))),
       eq(Px(k + 1), add(Px(k), mul(R(p.h), Vx(k)))),
       eq(Py(k + 1), add(Py(k), mul(R(p.h), Vy(k)))),
       eq(Pz(k + 1), add(Pz(k), mul(R(p.h), Vz(k)))) >>

\* Lines 89-101, the body of the loop for one k.
dynamicsConstraints(p, k) ==
    << eq(Vx(k + 1), add(Vx(k), mul(RDiv(p.h, p.m), Fx(k)))),
       eq(Vy(k + 1), add(Vy(k), mul(RDiv(p.h, p.m), Fy(k)))),
       eq(Vz(k + 1), sub(add(Vz(k), mul(RDiv(p.h, p.m), Fz(k))),
                         constant(R(p.h * p.g)))),
       eq(Px(k + 1), add(Px(k), mul(RDiv(p.h, 2), add(Vx(k), Vx(k + 1))))),
       eq(Py(k + 1), add(Py(k), mul(RDiv(p.h, 2), add(Vy(k), Vy(k + 1))))),
       eq(Pz(k + 1), add(Pz(k), mul(RDiv(p.h, 2), add(Vz(k), Vz(k + 1))))) >>

\* Mutant: the altitude floor is lost (lines 105-106), the descent is kept.
operationalConstraintsNoFloor(p) ==
    [i \in 1..(p.K + 1) |-> le(Vz(i - 1), constant(R(0)))]

\* Mutant: the loop stops before the last sample (k < K).
operationalConstraintsOpenEnd(p) ==
    Flatten([i \in 1..p.K |->
                << ge(Pz(i - 1), constant(R(p.P_min))),
                   le(Vz(i - 1), constant(R(0))) >>])

\* Lines 104-109: for k = 0 .. K.
operationalConstraints(p) ==
    Flatten([i \in 1..(p.K + 1) |->
                << ge(Pz(i - 1), constant(R(p.P_min))),
                   le(Vz(i - 1), constant(R(0))) >>])

\* Mutant: the thrust is bounded axis by axis (a box in place of the ball).
thrustConstraintsPerAxis(p, k) ==
    << ge(Fz(k), constant(R(0))),
       ge(gamma(k), constant(R(0))),
       le(Fx(k), gamma(k)), le(sub(constant(R(0)), Fx(k)), gamma(k)),
       le(Fy(k), gamma(k)), le(sub(constant(R(0)), Fy(k)), gamma(k)),
       le(Fz(k), gamma(k)), le(sub(constant(R(0)), Fz(k)), gamma(k)),
       le(gamma(k), constant(R(p.F_max))) >>

\* Lines 111-125, the body of the loop for one k.
thrustConstraints(p, k) ==
    << ge(Fz(k), constant(R(0))),
       ge(gamma(k), constant(R(0))),
       soc(vstack(<<Fx(k), Fy(k), Fz(k)>>), gamma(k)),
       le(gamma(k), constant(R(p.F_max))) >>

\* The constraints in the order the program pushes them.
constraintsOf(p) ==
    boundaryConstraints(p)
    \o Flatten([i \in 1..p.K |-> dynamicsConstraints(p, i - 1)])
    \o operationalConstraints(p)
    \o Flatten([i \in 1..p.K |-> thrustConstraints(p, i - 1)])

\* Mutant: the cost counts the upward thrust instead of its magnitude bound.
fuelCostUpwardOnly(p) == sum(vstack([i \in 1..p.K |-> Fz(i - 1)]))

\* Line 129.
fuelCost(p) == sum(vstack([i \in 1..p.K |-> gamma(i - 1)]))

----------------------------------------------------------------------------
(* The external conic solver (cvxjs, Problem.minimize(..).subjectTo(..)    *)
(* .solve(), lines 131-133).  Its contract: status "optimal" comes with a  *)
(* primal that satisfies every constraint and minimises the objective;     *)
(* any other status comes without one.  The model looks for primal values  *)
(* on an integer grid.                                                     *)

\* Bounds of the grid the solver's values are drawn from.
ThrustSlack == 1
MaxSpeed == 4
MaxDist == 10

GridOf(id, p) ==
    CASE id[1] \in {"Fx", "Fy", "Fz", "gamma"} ->
            (0 - p.F_max - ThrustSlack)..(p.F_max + ThrustSlack)
      [] id[1] \in {"Vx", "Vy", "Vz"} -> (0 - MaxSpeed)..MaxSpeed
      [] OTHER -> (0 - MaxDist)..MaxDist

\* The order in which the search assigns the variables: step by step.
SearchOrder(p) ==
    << <<"Vx", 0>>, <<"Px", 0>>, <<"Vy", 0>>, <<"Py", 0>>, <<"Vz", 0>>, <<"Pz", 0>> >>
    \o Flatten([i \in 1..p.K |->
          << <<"Fx", i - 1>>, <<"Vx", i>>, <<"Px", i>>,
             <<"Fy", i - 1>>, <<"Vy", i>>, <<"Py", i>>,
             <<"Fz", i - 1>>, <<"Vz", i>>, <<"Pz", i>>,
             <<"gamma", i - 1>> >>])

\* The assignments of order[1..i-1] in S extended by every value of order[i]
\* that satisfies the constraints whose variables are then all assigned.
RECURSIVE Search(_, _, _, _, _)
Search(S, i, order, C, p) ==
    IF i > Len(order) \/ S = {} THEN S
    ELSE LET id == order[i]
             before == {order[j] : j \in 1..(i - 1)}
             closing == {j \in 1..Len(C) :
                            LET vs == VarsOf(C[j])
                            IN  id \in vs /\ vs \subseteq (before \cup {id})}
             next == UNION {{a @@ (id :> d) :
                               d \in {d \in GridOf(id, p) :
                                        \A j \in closing :
                                           Holds(C[j], a @@ (id :> d))}} :
                            a \in S}
         IN  Search(next, i + 1, order, C, p)

\* Every grid point that satisfies all the constraints of the program.
Feasible(p) == Search({<<>>}, 1, SearchOrder(p), constraintsOf(p), p)

Objective(p, a) == LET v == Eval(fuelCost(p), a) IN v[1] \div v[2]

Minimisers(p) ==
    LET F == Feasible(p)
    IN  {a \in F : \A b \in F : Objective(p, a) <= Objective(p, b)}

\* solution.primal: variable id -> its values (one per component).
PrimalOf(a) == [id \in DOMAIN a |-> <<a[id]>>]

FailureStatuses == {"infeasible", "unbounded", "error"}

NoSolution == [status |-> "none", hasPrimal |-> FALSE, primal |-> <<>>,
               hasValue |-> FALSE, value |-> 0]

\* What solve() may resolve to for the program of p.
SolverResponses(p) ==
    LET M == Minimisers(p)
    IN  {[status |-> "optimal", hasPrimal |-> TRUE, primal |-> PrimalOf(a),
          hasValue |-> TRUE, value |-> Objective(p, a)] : a \in M}
        \cup {[NoSolution EXCEPT !.status = s] :
                 s \in IF M = {} THEN FailureStatuses
                       ELSE FailureStatuses \ {"infeasible"}}

----------------------------------------------------------------------------
(* GFoldSolver.ts: extraction and the solveLanding call.                   *)

\* Lines 22-31.
extractScalar(sol, expr) ==
    IF ~sol.hasPrimal \/ expr.kind # "variable" THEN 0
    ELSE IF expr.id \notin DOMAIN sol.primal THEN 0
    ELSE IF Len(sol.primal[expr.id]) = 0 THEN 0
    ELSE sol.primal[expr.id][1]

NoTrajectory == [positions |-> <<>>, velocities |-> <<>>, thrusts |-> <<>>,
                 fuelUsed |-> 0]

NoOutcome == [kind |-> "pending", message |-> "", trajectory |-> NoTrajectory]

\* Mutant: a thrust is read for every sample (the loop of lines 157-163 run
\* to K, with extractScalar's 0 for the values the primal lacks).
extractTrajectoryThrustPerSample(sol, p) ==
    [positions |-> [i \in 1..(p.K + 1) |->
                      << extractScalar(sol, Px(i - 1)),
                         extractScalar(sol, Py(i - 1)),
                         extractScalar(sol, Pz(i - 1)) >>],
     velocities |-> [i \in 1..(p.K + 1) |->
                      << extractScalar(sol, Vx(i - 1)),
                         extractScalar(sol, Vy(i - 1)),
                         extractScalar(sol, Vz(i - 1)) >>],
     thrusts |-> [i \in 1..(p.K + 1) |->
                      << extractScalar(sol, Fx(i - 1)),
                         extractScalar(sol, Fy(i - 1)),
                         extractScalar(sol, Fz(i - 1)) >>],
     fuelUsed |-> IF sol.hasValue THEN sol.value ELSE 0]

\* Lines 139-170.
extractTrajectory(sol, p) ==
    [positions |-> [i \in 1..(p.K + 1) |->
                      << extractScalar(sol, Px(i - 1)),
                         extractScalar(sol, Py(i - 1)),
                         extractScalar(sol, Pz(i - 1)) >>],
     velocities |-> [i \in 1..(p.K + 1) |->
                      << extractScalar(sol, Vx(i - 1)),
                         extractScalar(sol, Vy(i - 1)),
                         extractScalar(sol, Vz(i - 1)) >>],
     thrusts |-> [i \in 1..p.K |->
                      << extractScalar(sol, Fx(i - 1)),
                         extractScalar(sol, Fy(i - 1)),
                         extractScalar(sol, Fz(i - 1)) >>],
     fuelUsed |-> IF sol.hasValue THEN sol.value ELSE 0]

\* Mutant: the status of the solution is not looked at.
settleIgnoringStatus(sol, p) ==
    [kind |-> "resolved", message |-> "", trajectory |-> extractTrajectory(sol, p)]

\* Lines 135-170: what the promise of solveLanding settles to, given the
\* solution the solver resolved to.
settle(sol, p) ==
    IF sol.status # "optimal"
    THEN [kind |-> "rejected",
          message |-> "Solver failed with status: " \o sol.status,
          trajectory |-> NoTrajectory]
    ELSE [kind |-> "resolved", message |-> "",
          trajectory |-> extractTrajectory(sol, p)]

\* The landing scenarios the calls are made with (the tangent of the
\* glide-slope angle stands for alpha).
baseParams ==
    [K |-> 2, h |-> 2, g |-> 1, m |-> 2, F_max |-> 4, P_min |-> 0,
     alpha |-> <<1, 1>>, p0 |-> <<0, 0, 4>>, v0 |-> <<0, 0, -2>>,
     p_target |-> <<0, 0, 0>>]

zeroGravityParams ==
    [K |-> 2, h |-> 1, g |-> 0, m |-> 1, F_max |-> 10, P_min |-> 0,
     alpha |-> <<1, 1>>, p0 |-> <<0, 0, 10>>, v0 |-> <<0, 0, 0>>,
     p_target |-> <<0, 0, 0>>]

Scenarios ==
    {[baseParams EXCEPT !.p0 = q, !.F_max = f, !.P_min = pm] :
        q \in {<<0, 0, 4>>, <<2, 0, 4>>, <<4, 0, 4>>}, f \in {3, 4}, pm \in {0, 1}}
    \cup {[baseParams EXCEPT !.p0 = q, !.g = 0] :
        q \in {<<0, 0, 4>>, <<2, 0, 4>>, <<0, 2, 4>>}}
    \cup {[baseParams EXCEPT !.K = 1, !.m = 1, !.p0 = <<0, 0, 2>>, !.F_max = f] :
        f \in {3, 4}}
    \cup {[baseParams EXCEPT !.p0 = <<0, 0, 5>>, !.p_target = <<0, 0, 1>>,
                             !.P_min = pm] : pm \in {0, 1}}
    \cup {[baseParams EXCEPT !.v0 = <<2, 0, -2>>, !.F_max = 5],
          [baseParams EXCEPT !.p0 = <<0, 2, 4>>],
          zeroGravityParams}
    \cup {[baseParams EXCEPT !.P_min = 5],
          [baseParams EXCEPT !.p0 = <<0, 0, 1>>, !.v0 = <<0, 0, 0>>,
                             !.p_target = <<0, 0, 2>>, !.P_min = 2]}
    \cup {[baseParams EXCEPT !.p0 = <<-6, 0, 8>>, !.v0 = <<0, 0, -4>>,
                             !.F_max = 5]}

\* solveLanding(p) is called (line 42) and awaits initSolver (lines 35-40).
callSolveLanding ==
    /\ pc = "idle"
    /\ \E p \in Scenarios : params' = p
    /\ pc' = IF wasmLoaded THEN "solve" ELSE "init"
    /\ UNCHANGED <<wasmLoaded, solution, outcome, physVars, appVars>>

\* LandingParams that are not a landing problem: no thrust (with and
\* without a way to stay at rest on the target), a negative thrust limit, a
\* negative mass, a zero time step.
InvalidParams ==
    {[baseParams EXCEPT !.F_max = 0],
     [baseParams EXCEPT !.F_max = 0, !.g = 0, !.p0 = <<0, 0, 0>>,
                        !.v0 = <<0, 0, 0>>],
     [baseParams EXCEPT !.F_max = -1],
     [baseParams EXCEPT !.m = -2],
     [baseParams EXCEPT !.h = 0, !.F_max = 0, !.p0 = <<0, 0, 0>>,
                        !.v0 = <<0, 0, 0>>]}

\* solveLanding(p) is called with such params: lines 42-47 read them as they
\* read any others.
callSolveLandingInvalid ==
    /\ pc = "idle"
    /\ \E p \in InvalidParams : params' = p
    /\ pc' = IF wasmLoaded THEN "solve" ELSE "init"
    /\ UNCHANGED <<wasmLoaded, solution, outcome, physVars, appVars>>

\* loadWasm() resolves (lines 37-38); the program is built and handed to the
\* solver (lines 45-133).
loadWasmResolves ==
    /\ pc = "init"
    /\ wasmLoaded' = TRUE
    /\ pc' = "solve"
    /\ UNCHANGED <<params, solution, outcome, physVars, appVars>>

\* solve() resolves and the rest of solveLanding runs (lines 135-170).
solveResolves ==
    /\ pc = "solve"
    /\ \E sol \in SolverResponses(params) :
          /\ solution' = sol
          /\ outcome' = settle(sol, params)
    /\ pc' = "settled"
    /\ UNCHANGED <<wasmLoaded, params, physVars, appVars>>

\* The caller has taken the result or the error; the next call may come.
callerTakesResult ==
    /\ pc = "settled"
    /\ pc' = "idle"
    /\ solution' = NoSolution
    /\ outcome' = NoOutcome
    /\ UNCHANGED <<wasmLoaded, params, physVars, appVars>>

\* The variables whose values lines 144-163 read back.
ExtractedIds(p) ==
    {<<n, k>> : n \in {"Px", "Py", "Pz", "Vx", "Vy", "Vz"}, k \in 0..p.K}
    \cup {<<n, k>> : n \in {"Fx", "Fy", "Fz"}, k \in 0..(p.K - 1)}

\* An optimal solution whose primal is absent, or lacks the entry of one
\* variable, or holds an empty entry for it: the cases extractScalar tests
\* for (lines 23 and 27).
MalformedResponses(p) ==
    LET good == {r \in SolverResponses(p) : r.status = "optimal"}
    IN  {[r EXCEPT !.hasPrimal = FALSE, !.primal = <<>>] : r \in good}
        \cup {[r EXCEPT !.primal =
                    [id \in (DOMAIN r.primal) \ {gone} |-> r.primal[id]]] :
                 r \in good, gone \in ExtractedIds(p)}
        \cup {[r EXCEPT !.primal[empty] = <<>>] :
                 r \in good, empty \in ExtractedIds(p)}

\* solve() resolves to a malformed optimal solution and the rest of
\* solveLanding runs (lines 135-170).
solveResolvesMalformed ==
    /\ pc = "solve"
    /\ \E sol \in MalformedResponses(params) :
          /\ solution' = sol
          /\ outcome' = settle(sol, params)
    /\ pc' = "settled"
    /\ UNCHANGED <<wasmLoaded, params, physVars, appVars>>

----------------------------------------------------------------------------
(* stores/simulationStore.ts (src/unnamed/part_004): the values of the     *)
(* store.  A null trajectory is NoTrajectory, a null errorMessage is       *)
(* NoErrorMessage.                                                         *)

NoErrorMessage == "(null)"

\* Lines 33-79: the mission profiles of the scenario selector, by their
\* params (the first one is the default).
scenarios ==
    << baseParams,
       [baseParams EXCEPT !.K = 1, !.m = 1, !.p0 = <<0, 0, 2>>] >>

\* Line 125.
defaultParams == scenarios[1]

\* What Scene and Telemetry show before the first render.
NoView ==
    [threw |-> FALSE, reads |-> {}, position |-> <<>>, velocity |-> <<>>,
     thrust |-> <<>>]

NotRendered ==
    [shown |-> FALSE, trajectory |-> NoTrajectory, playbackTime |-> R(0),
     scene |-> NoView, telemetry |-> NoView]

\* The playback time is a rational in lowest terms.
RECURSIVE Gcd(_, _)
Gcd(a, b) == IF b = 0 THEN a ELSE Gcd(b, a % b)

RNorm(a) == LET g == Gcd(Abs(a[1]), a[2]) IN <<a[1] \div g, a[2] \div g>>

\* Mutant: Math.ceil.
RCeil(a) == -((-a[1]) \div a[2])

\* Math.floor.
RFloor(a) == a[1] \div a[2]

\* Math.min.
Min(a, b) == IF a <= b THEN a ELSE b

\* The fields of the store that reset and loadScenario write.
storeState ==
    [params |-> storeParams, trajectory |-> trajectory, status |-> status,
     errorMessage |-> errorMessage, playbackTime |-> playbackTime,
     simplePhysics |-> simplePhysics]

\* set(..) of the store: the fields become those of s.
storeBecomes(s) ==
    /\ storeParams' = s.params
    /\ trajectory' = s.trajectory
    /\ status' = s.status
    /\ errorMessage' = s.errorMessage
    /\ playbackTime' = s.playbackTime
    /\ simplePhysics' = s.simplePhysics

\* Lines 150-151.
loadScenarioInto(s, scenario) ==
    [s EXCEPT !.params = scenario, !.trajectory = NoTrajectory,
              !.status = "idle", !.playbackTime = R(0)]

\* Mutant: the status is left as it was.
resetKeepsStatus(s) ==
    [s EXCEPT !.trajectory = NoTrajectory, !.playbackTime = R(0),
              !.errorMessage = NoErrorMessage,
              !.simplePhysics = createInitialState]

\* Mutant: the error message and the flight of the simple mode survive.
resetPlaybackOnly(s) ==
    [s EXCEPT !.trajectory = NoTrajectory, !.status = "idle",
              !.playbackTime = R(0)]

\* Lines 177-185.
reset(s) ==
    [s EXCEPT !.trajectory = NoTrajectory, !.status = "idle",
              !.playbackTime = R(0), !.errorMessage = NoErrorMessage,
              !.simplePhysics = createInitialState]

----------------------------------------------------------------------------
(* src/src/App.tsx: the handlers of the control panel and the effects of   *)
(* the App component.  calls holds the solveLanding calls that have not    *)
(* settled: the number of the call, the handler that awaits it, its params *)
(* and where it is (awaiting initSolver, awaiting solve()).                *)

\* Bound on the number of solveLanding calls of a behaviour.
MaxCalls == 2

\* The states the launch animation may hand to triggerLanding (lines 127-130).
LaunchEndStates == {[position |-> <<0, 0, 4>>, velocity |-> <<0, 0, -2>>]}

\* Lines 61-65.
landingParams(p, launch) ==
    [p EXCEPT !.p0 = launch.position, !.v0 = launch.velocity]

\* Every params a handler calls solveLanding with.
HandlerParams ==
    {scenarios[i] : i \in 1..Len(scenarios)}
    \cup {landingParams(scenarios[i], l) :
             i \in 1..Len(scenarios), l \in LaunchEndStates}

\* What solve() may resolve to, for each of them.
SolverResponsesOf == [p \in HandlerParams |-> SolverResponses(p)]

\* solveLanding(p) is called and awaits initSolver (GFoldSolver.ts lines 42-43).
newCall(handler, p) ==
    [id |-> requested + 1, handler |-> handler, params |-> p,
     pc |-> IF wasmLoaded THEN "solve" ELSE "init"]

\* No call has settled yet.
NoneSettled ==
    [id |-> 0, handler |-> "none", params |-> defaultParams, outcome |-> NoOutcome]

\* s without its k-th element.
Without(s, k) == SubSeq(s, 1, k - 1) \o SubSeq(s, k + 1, Len(s))

\* Lines 610-613, "Skip to Landing Only" (lines 934-940: rendered in the
\* G-FOLD mode, disabled while status is 'solving' or 'launching').
handleSolve ==
    /\ simulationMode = "gfold"
    /\ status \notin {"solving", "launching"}
    /\ requested < MaxCalls
    /\ status' = "solving"
    /\ errorMessage' = NoErrorMessage
    /\ calls' = Append(calls, newCall("handleSolve", storeParams))
    /\ requested' = requested + 1
    /\ UNCHANGED <<physVars, solveVars, simulationMode, storeParams, trajectory,
                   playbackTime, settled, rendered>>

\* Lines 627-630, "Launch Mission" (lines 925-931): reset(); setStatus('launching').
handleLaunch ==
    /\ simulationMode = "gfold"
    /\ status \notin {"solving", "launching"}
    /\ storeBecomes([reset(storeState) EXCEPT !.status = "launching"])
    /\ UNCHANGED <<simpleConfig, solveVars, simulationMode, callVars, rendered>>

\* Lines 57-66: the launch animation (lines 79-149, running while status is
\* 'launching') reaches its end and calls triggerLanding.
triggerLanding ==
    /\ status = "launching"
    /\ requested < MaxCalls
    /\ status' = "solving"
    /\ \E l \in LaunchEndStates :
          calls' = Append(calls, newCall("triggerLanding",
                                         landingParams(storeParams, l)))
    /\ requested' = requested + 1
    /\ UNCHANGED <<physVars, solveVars, simulationMode, storeParams, trajectory,
                   errorMessage, playbackTime, settled, rendered>>

\* GFoldSolver.ts lines 35-40: loadWasm() resolves for call k; the program
\* is built and handed to the solver (lines 45-133).
callLoadsWasm ==
    \E k \in 1..Len(calls) :
       /\ calls[k].pc = "init"
       /\ wasmLoaded' = TRUE
       /\ calls' = [calls EXCEPT ![k].pc = "solve"]
       /\ UNCHANGED <<physVars, pc, params, solution, outcome, storeVars,
                      requested, settled, rendered>>

\* Mutant: the catch block shows its fallback text whatever was thrown.
caughtMessageGeneric(out, fallback) == fallback

\* The message the catch blocks show (lines 74 and 620):
\* err instanceof Error ? err.message : fallback.  Every rejection of
\* solveLanding in this model is the Error thrown at GFoldSolver.ts line 136.
caughtMessage(out, fallback) == out.message

\* Lines 614-620: handleSolve after its await, on the store fields st.
handleSolveSettled(out, st) ==
    IF out.kind = "resolved"
    THEN [st EXCEPT !.trajectory = out.trajectory, !.status = "ready",
                    !.playbackTime = R(0)]
    ELSE [st EXCEPT !.status = "error",
                    !.errorMessage = caughtMessage(out, "Unknown error")]

\* Lines 68-74: triggerLanding after its await.
triggerLandingSettled(out, st) ==
    IF out.kind = "resolved"
    THEN [st EXCEPT !.trajectory = out.trajectory, !.status = "playing",
                    !.playbackTime = R(0)]
    ELSE [st EXCEPT !.status = "error",
                    !.errorMessage = caughtMessage(out, "Solver failed")]

\* solve() resolves for call k, solveLanding settles (GFoldSolver.ts lines
\* 135-170) and the handler that awaits it goes on.
callSettles ==
    \E k \in 1..Len(calls) :
       /\ calls[k].pc = "solve"
       /\ \E sol \in SolverResponsesOf[calls[k].params] :
             LET out == settle(sol, calls[k].params)
                 st == [trajectory |-> trajectory, status |-> status,
                        playbackTime |-> playbackTime,
                        errorMessage |-> errorMessage]
                 new == IF calls[k].handler = "handleSolve"
                        THEN handleSolveSettled(out, st)
                        ELSE triggerLandingSettled(out, st)
             IN  /\ calls' = Without(calls, k)
                 /\ settled' = [id |-> calls[k].id, handler |-> calls[k].handler,
                                params |-> calls[k].params, outcome |-> out]
                 /\ trajectory' = new.trajectory
                 /\ status' = new.status
                 /\ playbackTime' = new.playbackTime
                 /\ errorMessage' = new.errorMessage
       /\ UNCHANGED <<physVars, solveVars, simulationMode, storeParams,
                      requested, rendered>>

\* Line 624, "Play" (lines 943-951: rendered when there is a trajectory).
handlePlay ==
    /\ simulationMode = "gfold"
    /\ trajectory # NoTrajectory
    /\ status # "playing"
    /\ status' = "playing"
    /\ UNCHANGED <<physVars, solveVars, simulationMode, storeParams, trajectory,
                   errorMessage, playbackTime, callVars, rendered>>

\* Line 625, "Pause".
handlePause ==
    /\ simulationMode = "gfold"
    /\ trajectory # NoTrajectory
    /\ status = "playing"
    /\ status' = "paused"
    /\ UNCHANGED <<physVars, solveVars, simulationMode, storeParams, trajectory,
                   errorMessage, playbackTime, callVars, rendered>>

\* Line 626, "Reset" (lines 952-957): reset() of the store (part_004 lines
\* 178-185).
handleReset ==
    /\ simulationMode = "gfold"
    /\ trajectory # NoTrajectory
    /\ storeBecomes(reset(storeState))
    /\ UNCHANGED <<simpleConfig, solveVars, simulationMode, callVars, rendered>>

\* "G-FOLD Landing" of the mode selector (line 703):
\* handleReset(); setSimulationMode('gfold').
selectGfoldMode ==
    /\ storeBecomes(reset(storeState))
    /\ simulationMode' = "gfold"
    /\ UNCHANGED <<simpleConfig, solveVars, callVars, rendered>>

\* Lines 840-842: the option the scenario selector shows, the first scenario
\* with the g and m of the params (0 when there is none).
shownScenario(p) ==
    LET match == {i \in 1..Len(scenarios) :
                     scenarios[i].g = p.g /\ scenarios[i].m = p.m}
    IN  IF match = {} THEN 0 ELSE CHOOSE i \in match : \A j \in match : i <= j

\* Line 843 and part_004 lines 150-151: another mission profile is chosen.
loadScenario ==
    /\ simulationMode = "gfold"
    /\ \E i \in 1..Len(scenarios) :
          /\ i # shownScenario(storeParams)
          /\ storeBecomes(loadScenarioInto(storeState, scenarios[i]))
    /\ UNCHANGED <<simpleConfig, solveVars, simulationMode, callVars, rendered>>

\* deltaTime * playbackSpeed of an animation frame (lines 163-167): 0 on the
\* first frame of an effect, positive afterwards.
FrameAdvances == {<<0, 1>>, <<1, 2>>, <<1, 1>>, <<3, 2>>}

\* Mutant: the last frame pauses at the time it computed, past the end.
playbackFrameNoClamp ==
    /\ status = "playing"
    /\ trajectory # NoTrajectory
    /\ \E d \in FrameAdvances :
          LET maxTime == Len(trajectory.positions) - 1
              newTime == RNorm(RAdd(playbackTime, d))
          IN  IF RLe(R(maxTime), newTime)
              THEN /\ playbackTime' = newTime
                   /\ status' = "paused"
              ELSE /\ playbackTime' = newTime
                   /\ UNCHANGED status
    /\ UNCHANGED <<physVars, solveVars, simulationMode, storeParams, trajectory,
                   errorMessage, callVars, rendered>>

\* Lines 152-184: a frame of the landing playback.
playbackFrame ==
    /\ status = "playing"
    /\ trajectory # NoTrajectory
    /\ \E d \in FrameAdvances :
          LET maxTime == Len(trajectory.positions) - 1
              newTime == RNorm(RAdd(playbackTime, d))
          IN  IF RLe(R(maxTime), newTime)
              THEN /\ playbackTime' = R(maxTime)
                   /\ status' = "paused"
              ELSE /\ playbackTime' = newTime
                   /\ UNCHANGED status
    /\ UNCHANGED <<physVars, solveVars, simulationMode, storeParams, trajectory,
                   errorMessage, callVars, rendered>>

\* Lines 970-978: the timeline slider (min 0, max maxTime) sets the playback
\* time; the model moves it in half steps.
seekTimeline ==
    /\ simulationMode = "gfold"
    /\ trajectory # NoTrajectory
    /\ \E n \in 0..(2 * (Len(trajectory.positions) - 1)) :
          /\ RNorm(<<n, 2>>) # playbackTime
          /\ playbackTime' = RNorm(<<n, 2>>)
    /\ UNCHANGED <<physVars, solveVars, simulationMode, storeParams, trajectory,
                   status, errorMessage, callVars, rendered>>

----------------------------------------------------------------------------
(* src/src/components/Scene.tsx and src/src/ui/Telemetry.tsx: the frame of  *)
(* the playback.  A view records whether the render threw, the indices of   *)
(* trajectory.positions it read, and the position (rationals), velocity and *)
(* thrust it shows.                                                         *)

\* What reading outside an array gives.
Undefined == <<>>

\* array[i] of JavaScript, i counted from 0.
At(array, i) == IF 0 <= i /\ i < Len(array) THEN array[i + 1] ELSE Undefined

\* The trajectories the store is given: what solveLanding resolves to for
\* the mission profiles.
SolvedTrajectories ==
    UNION {{settle(sol, scenarios[i]).trajectory :
               sol \in {r \in SolverResponsesOf[scenarios[i]] :
                           r.status = "optimal"}} :
           i \in 1..Len(scenarios)}

\* The times setPlaybackTime is given (the store takes any number).
PlaybackTimes ==
    {RNorm(<<n, 2>>) : n \in -3..6}

\* Mutant: the blend runs from the next sample to the current one.
interpolateSwapped(p1, p2, t) ==
    [i \in 1..3 |-> RNorm(RAdd(R(p2[i]), RMul(t, R(p1[i] - p2[i]))))]

\* Scene.tsx lines 50-54.
interpolate(p1, p2, t) ==
    [i \in 1..3 |-> RNorm(RAdd(R(p1[i]), RMul(t, R(p2[i] - p1[i]))))]

\* Scene.tsx lines 27-63, the branches that are not the launch.
sceneView(traj, time, p) ==
    LET last == IF traj # NoTrajectory THEN Len(traj.positions) - 1 ELSE 0
        currentIndex == Min(RFloor(time), last)
        nextIndex == Min(currentIndex + 1, last)
        t == RSub(time, R(currentIndex))
        p1 == At(traj.positions, currentIndex)
        p2 == At(traj.positions, nextIndex)
    IN  IF traj # NoTrajectory /\ Len(traj.positions) > 0
        THEN IF p1 = Undefined \/ p2 = Undefined
             THEN \* p1[0] of line 51 throws a TypeError
                  [threw |-> TRUE, reads |-> {currentIndex, nextIndex},
                   position |-> Undefined, velocity |-> Undefined,
                   thrust |-> Undefined]
             ELSE [threw |-> FALSE, reads |-> {currentIndex, nextIndex},
                   position |-> interpolate(p1, p2, t),
                   velocity |-> IF currentIndex < Len(traj.velocities)
                                THEN At(traj.velocities, currentIndex)
                                ELSE p.v0,
                   thrust |-> IF currentIndex < Len(traj.thrusts)
                              THEN At(traj.thrusts, currentIndex)
                              ELSE <<0, 0, 0>>]
        ELSE [threw |-> FALSE, reads |-> {},
              position |-> <<R(0), R(0), R(5)>>,
              velocity |-> <<0, 0, 0>>, thrust |-> <<0, 0, 0>>]

\* Telemetry.tsx lines 3-24.
telemetryView(traj, time) ==
    LET currentIndex == Min(RFloor(time), Len(traj.positions) - 1)
        position == At(traj.positions, currentIndex)
        velocity == At(traj.velocities, currentIndex)
        thrust == IF currentIndex < Len(traj.thrusts)
                  THEN At(traj.thrusts, currentIndex)
                  ELSE <<0, 0, 0>>
    IN  IF traj = NoTrajectory THEN NoView
        ELSE IF velocity = Undefined \/ thrust = Undefined
                  \/ position = Undefined
             THEN \* velocity[0] of line 20 throws a TypeError
                  [threw |-> TRUE, reads |-> {currentIndex},
                   position |-> Undefined, velocity |-> Undefined,
                   thrust |-> Undefined]
             ELSE [threw |-> FALSE, reads |-> {currentIndex},
                   position |-> [i \in 1..3 |-> R(position[i])],
                   velocity |-> velocity, thrust |-> thrust]

\* part_004 line 155.
setTrajectory ==
    /\ \E data \in SolvedTrajectories \cup {NoTrajectory} : trajectory' = data
    /\ UNCHANGED <<physVars, solveVars, simulationMode, storeParams, status,
                   errorMessage, playbackTime, callVars, rendered>>

\* part_004 line 165.
setPlaybackTime ==
    /\ \E time \in PlaybackTimes : playbackTime' = time
    /\ UNCHANGED <<physVars, solveVars, simulationMode, storeParams, trajectory,
                   status, errorMessage, callVars, rendered>>

\* The values of SimulationStatus.
Statuses ==
    {"idle", "solving", "ready", "playing", "paused", "error", "launching",
     "simpleRunning", "crashed", "landed"}

\* part_004 line 159.
setStatus ==
    /\ \E st \in Statuses : status' = st
    /\ UNCHANGED <<physVars, solveVars, simulationMode, storeParams, trajectory,
                   errorMessage, playbackTime, callVars, rendered>>

\* part_004 line 161, with the messages the handlers give it.
setErrorMessage ==
    /\ \E msg \in {NoErrorMessage, "Solver failed with status: infeasible"} :
          errorMessage' = msg
    /\ UNCHANGED <<physVars, solveVars, simulationMode, storeParams, trajectory,
                   status, playbackTime, callVars, rendered>>

\* Scene and Telemetry render the store.
renderScene ==
    /\ status # "launching"
    /\ rendered' =
          [shown |-> TRUE, trajectory |-> trajectory,
           playbackTime |-> playbackTime,
           scene |-> sceneView(trajectory, playbackTime, storeParams),
           telemetry |-> telemetryView(trajectory, playbackTime)]
    /\ UNCHANGED <<physVars, solveVars, storeVars, callVars>>

----------------------------------------------------------------------------
(* Specifications.                                                         *)

\* The store's default config, in the model's units.
defaultSimpleConfig ==
    [gravity |-> 4, mass |-> 1, maxThrust |-> 8, burnDuration |-> 2]

\* The solver module and the store after construction.
SolverInit ==
    /\ wasmLoaded = FALSE
    /\ pc = "idle"
    /\ params = baseParams
    /\ solution = NoSolution
    /\ outcome = NoOutcome

StoreInit ==
    /\ simulationMode = "gfold"
    /\ storeParams = defaultParams
    /\ trajectory = NoTrajectory
    /\ status = "idle"
    /\ errorMessage = NoErrorMessage
    /\ playbackTime = R(0)
    /\ calls = <<>>
    /\ requested = 0
    /\ settled = NoneSettled
    /\ rendered = NotRendered

Init ==
    /\ simplePhysics = createInitialState
    /\ simpleConfig = defaultSimpleConfig
    /\ SolverInit
    /\ StoreInit

\* The store driven through its setters, and rendered.
ViewNext ==
    \/ setTrajectory
    \/ setPlaybackTime
    \/ loadScenario
    \/ renderScene

ViewSpec == Init /\ [][ViewNext]_vars

\* The store driven through its setters, reset and loadScenario, with the
\* flight of the simple mode ticking.
StoreNext ==
    \/ setTrajectory
    \/ seekTimeline
    \/ setStatus
    \/ setErrorMessage
    \/ Tick
    \/ loadScenario
    \/ handleReset
    \/ selectGfoldMode

StoreSpec == Init /\ [][StoreNext]_vars

\* stepPhysics as a function of its arguments: ticks from states that drift
\* sideways, under every config.
StepInit ==
    /\ simplePhysics \in
          {[createInitialState EXCEPT !.velocity = v] : v \in StepVelocities}
    /\ simpleConfig \in PhysicsConfigs
    /\ SolverInit
    /\ StoreInit

StepSpec == StepInit /\ [][Tick]_vars

\* A playback left to itself: the panel and the solver act while nothing
\* plays, and once status is 'playing' only the animation frames arrive,
\* which the browser keeps delivering (requestAnimationFrame, lines 174, 178).
PlaybackNext ==
    \/ playbackFrame
    \/ status # "playing" /\ handleSolve
    \/ status # "playing" /\ handleLaunch
    \/ status # "playing" /\ triggerLanding
    \/ status # "playing" /\ callLoadsWasm
    \/ status # "playing" /\ callSettles
    \/ status # "playing" /\ handlePlay
    \/ status # "playing" /\ seekTimeline
    \/ status # "playing" /\ loadScenario

PlaybackSpec == Init /\ [][PlaybackNext]_vars /\ WF_vars(playbackFrame)

\* The flight on the Mars pad, ticked until it is over and after.
FlightInit ==
    /\ simplePhysics = flightInitialState
    /\ simpleConfig \in FlightConfigs
    /\ SolverInit
    /\ StoreInit

FlightSpec == FlightInit /\ [][FlightTick]_vars /\ WF_vars(FlightTick)

PhysicsNext ==
    \/ Tick
    \/ selectSimpleMode
    \/ handleSimpleLaunch
    \/ handleSimpleReset
    \/ setSimpleConfig

PhysicsSpec == Init /\ [][PhysicsNext]_vars

SolveNext ==
    callSolveLanding \/ loadWasmResolves \/ solveResolves \/ callerTakesResult

SolveSpec == Init /\ [][SolveNext]_vars

\* solveLanding is also called with params that are not a landing problem.
InvalidParamsNext == SolveNext \/ callSolveLandingInvalid

InvalidParamsSpec == Init /\ [][InvalidParamsNext]_vars

\* The control panel in the G-FOLD mode and the effects of App.
ControllerNext ==
    \/ handleSolve
    \/ handleLaunch
    \/ triggerLanding
    \/ callLoadsWasm
    \/ callSettles
    \/ handlePlay
    \/ handlePause
    \/ handleReset
    \/ loadScenario
    \/ selectSimpleMode
    \/ selectGfoldMode
    \/ playbackFrame
    \/ seekTimeline

ControllerSpec == Init /\ [][ControllerNext]_vars

\* The solver's adapter may also hand back a malformed optimal solution.
FaultySolveNext == SolveNext \/ solveResolvesMalformed

FaultySolveSpec == Init /\ [][FaultySolveNext]_vars

----------------------------------------------------------------------------
(* Claims about the physics integrator (PhysicsSpec).                      *)

\* C1: a tick of a state in which hasCrashed or hasLandedSafely is true
\* returns that state, with no field changed, for every config, dt and
\* groundHeight.
C1_TerminalTickUnchanged ==
    Terminal(simplePhysics) =>
        \A c \in PhysicsConfigs, dt \in Dts, gh \in GroundHeights :
            stepPhysics(simplePhysics, c, dt, gh) = simplePhysics

\* A terminal state on which further ticks are delivered.
C1_Witness ==
    /\ Terminal(simplePhysics)
    /\ simplePhysics.elapsedTime < MaxElapsed

\* C2: hasCrashed and hasLandedSafely are never both true; they are both
\* false at the start, and a tick makes a state terminal only when it detects
\* a ground collision.
C2_FlagsExclusive ==
    /\ ~Terminal(simplePhysics)
    /\ [](~(simplePhysics.hasCrashed /\ simplePhysics.hasLandedSafely))
    /\ [][(~Terminal(simplePhysics) /\ Terminal(simplePhysics')) =>
            \E dt \in Dts, gh \in GroundHeights :
               /\ groundCollision(simplePhysics, simpleConfig, dt, gh)
               /\ simplePhysics' = stepPhysics(simplePhysics, simpleConfig, dt, gh)]_vars

\* Both outcomes happen: this one is a safe landing after a flight.
C2_Witness ==
    /\ simplePhysics.hasLandedSafely
    /\ ~simplePhysics.hasCrashed
    /\ simplePhysics.elapsedTime > 1

----------------------------------------------------------------------------
(* Claims about solveLanding (SolveSpec: the solver honours its contract). *)

Returned == pc = "settled" /\ outcome.kind = "resolved"
Traj == outcome.trajectory
SqNorm(v) == v[1] * v[1] + v[2] * v[2] + v[3] * v[3]

\* C3: when the solver's status is not "optimal", solveLanding returns no
\* trajectory: it fails with an error whose message carries the status.
C3_NonOptimalRejects ==
    (pc = "settled" /\ solution.status # "optimal") =>
        /\ outcome.kind = "rejected"
        /\ outcome.trajectory = NoTrajectory
        /\ outcome.message = "Solver failed with status: " \o solution.status

\* The solver reported an infeasible program and the call has settled.
C3_Witness ==
    /\ pc = "settled"
    /\ solution.status = "infeasible"
    /\ outcome.message = "Solver failed with status: infeasible"

\* C4: a returned trajectory starts at p0 with v0 and ends at p_target with
\* zero velocity.
C4_BoundaryConditions ==
    Returned =>
        /\ Traj.velocities[1] = params.v0
        /\ Traj.positions[1] = params.p0
        /\ Traj.velocities[params.K + 1] = <<0, 0, 0>>
        /\ Traj.positions[params.K + 1] = params.p_target

\* A trajectory returned for a target that is not the origin.
C4_Witness ==
    /\ Returned
    /\ params.p_target # <<0, 0, 0>>
    /\ params.v0 # <<0, 0, 0>>

\* C5: every thrust of a returned trajectory has Euclidean norm at most
\* F_max (the norm of the 3-vector, not each axis alone) and a vertical
\* component that is not negative.
C5_ThrustInBall ==
    Returned =>
        \A i \in 1..params.K :
            /\ SqNorm(Traj.thrusts[i]) <= params.F_max * params.F_max
            /\ Traj.thrusts[i][3] >= 0

\* A returned thrust with a lateral and a vertical component.
C5_Witness ==
    /\ Returned
    /\ \E i \in 1..params.K :
          /\ Traj.thrusts[i][1] # 0
          /\ Traj.thrusts[i][3] # 0

\* C6: a returned trajectory satisfies the discretized dynamics at every
\* step, on the three axes (both sides multiplied by m, resp. by 2):
\* V[k+1] = V[k] + (h/m) F[k] - [0,0,g h], P[k+1] = P[k] + (h/2)(V[k] + V[k+1]).
C6_Dynamics ==
    Returned =>
        \A i \in 1..params.K : \A x \in 1..3 :
            /\ params.m * Traj.velocities[i + 1][x]
                 = params.m * Traj.velocities[i][x] + params.h * Traj.thrusts[i][x]
                   - (IF x = 3 THEN params.m * params.g * params.h ELSE 0)
            /\ 2 * Traj.positions[i + 1][x]
                 = 2 * Traj.positions[i][x]
                   + params.h * (Traj.velocities[i][x] + Traj.velocities[i + 1][x])

\* A trajectory returned under gravity, with a lateral move.
C6_Witness ==
    /\ Returned
    /\ params.g # 0
    /\ Traj.positions[1][1] # Traj.positions[2][1]

\* C7: in a returned trajectory every sample, the first and the last
\* included, has altitude >= P_min and vertical velocity <= 0.
C7_FloorAndDescent ==
    Returned =>
        \A i \in 1..(params.K + 1) :
            /\ Traj.positions[i][3] >= params.P_min
            /\ Traj.velocities[i][3] <= 0

\* A trajectory returned for a floor above the origin.
C7_Witness ==
    /\ Returned
    /\ params.P_min > 0
    /\ Traj.velocities[1][3] < 0

\* C8 as stated: for K=2, h=1, g=0, m=1, F_max=10, P_min=0, p0=[0,0,10],
\* v0=[0,0,0], p_target=[0,0,0] the program is feasible, so a solver that
\* does not break down is optimal and the trajectory ends at rest at the origin.
C8_Original ==
    (pc = "settled" /\ params = zeroGravityParams
        /\ solution.status \notin {"unbounded", "error"}) =>
        /\ solution.status = "optimal"
        /\ outcome.kind = "resolved"
        /\ Traj.positions[3] = <<0, 0, 0>>
        /\ Traj.velocities[3] = <<0, 0, 0>>

\* C8 amended: for that scenario the program has no solution (with g = 0,
\* v0 = 0, Fz >= 0 and Vz <= 0 the vehicle cannot descend): the solve is
\* never optimal and solveLanding fails, returning no trajectory.
C8_ZeroGravityInfeasible ==
    (pc = "settled" /\ params = zeroGravityParams) =>
        /\ solution.status # "optimal"
        /\ outcome.kind = "rejected"
        /\ outcome.trajectory = NoTrajectory

\* The solve of that scenario settled with the status infeasible.
C8_Witness ==
    /\ pc = "settled"
    /\ params = zeroGravityParams
    /\ solution.status = "infeasible"
    /\ outcome.kind = "rejected"

\* C9: every sample of a returned trajectory lies in the glide-slope cone:
\* its lateral distance from p_target is at most tan(alpha) times its
\* altitude above p_target.
C9_GlideSlope ==
    Returned =>
        \A i \in 1..(params.K + 1) :
            LET dx == Traj.positions[i][1] - params.p_target[1]
                dy == Traj.positions[i][2] - params.p_target[2]
                dz == Traj.positions[i][3] - params.p_target[3]
            IN  /\ dz >= 0
                /\ params.alpha[2] * params.alpha[2] * (dx * dx + dy * dy)
                     <= params.alpha[1] * params.alpha[1] * dz * dz

----------------------------------------------------------------------------
(* Claims about the extraction (FaultySolveSpec: the primal may be         *)
(* malformed).                                                             *)

PrimalIncomplete(sol, p) ==
    \/ ~sol.hasPrimal
    \/ \E id \in ExtractedIds(p) :
          id \notin DOMAIN sol.primal \/ Len(sol.primal[id]) = 0

\* C10: when the primal of an optimal solution is absent, or the entry of a
\* decision variable is missing or empty, the extraction fails with an error;
\* no trajectory with a 0 in the place of the missing value is returned.
C10_MissingPrimalIsFatal ==
    (pc = "settled" /\ solution.status = "optimal"
        /\ PrimalIncomplete(solution, params)) =>
        outcome.kind = "rejected"

----------------------------------------------------------------------------
(* Claims about the params of solveLanding (InvalidParamsSpec).            *)

ParamsInvalid(p) == p.K < 1 \/ p.m <= 0 \/ p.h <= 0 \/ p.F_max <= 0

\* C11: for params with K < 1 or one of m, h, F_max <= 0, solveLanding
\* reports a failure without invoking the solver and without returning a
\* trajectory: once the call is past initSolver it has failed, and no
\* solution of the solver exists.
C11_InvalidParamsFailEarly ==
    (ParamsInvalid(params) /\ pc \in {"solve", "settled"}) =>
        /\ pc = "settled"
        /\ solution = NoSolution
        /\ outcome.kind = "rejected"

----------------------------------------------------------------------------
(* Further claims about solveLanding (SolveSpec).                          *)

FloorAboveEndpoint(p) == p.P_min > p.p0[3] \/ p.P_min > p.p_target[3]

\* C12: for params whose P_min is above the altitude of p0 or above the
\* altitude of p_target the program has no solution: the solve is never
\* optimal, and solveLanding fails with the solver's status and returns no
\* trajectory.
C12_FloorAboveEndpointInfeasible ==
    (pc = "settled" /\ FloorAboveEndpoint(params)) =>
        /\ solution.status # "optimal"
        /\ outcome.kind = "rejected"
        /\ outcome.trajectory = NoTrajectory
        /\ outcome.message = "Solver failed with status: " \o solution.status

\* The solver found the program infeasible for a floor between the altitude
\* of the target and that of the start.
C12_Witness ==
    /\ pc = "settled"
    /\ params.P_min > params.p_target[3]
    /\ params.P_min <= params.p0[3]
    /\ solution.status = "infeasible"
    /\ outcome.kind = "rejected"

IsVector3(v) == DOMAIN v = 1..3 /\ \A x \in 1..3 : v[x] \in Int

\* C13: a trajectory returned for step count K has exactly K+1 positions,
\* K+1 velocities and K thrusts, each of them a 3-vector.
C13_TrajectoryShape ==
    Returned =>
        /\ Len(Traj.positions) = params.K + 1
        /\ Len(Traj.velocities) = params.K + 1
        /\ Len(Traj.thrusts) = params.K
        /\ \A i \in 1..Len(Traj.positions) : IsVector3(Traj.positions[i])
        /\ \A i \in 1..Len(Traj.velocities) : IsVector3(Traj.velocities[i])
        /\ \A i \in 1..Len(Traj.thrusts) : IsVector3(Traj.thrusts[i])

\* A trajectory returned for one step: two samples, one thrust.
C13_Witness ==
    /\ Returned
    /\ params.K = 1
    /\ Len(Traj.positions) = 2
    /\ Len(Traj.thrusts) = 1

----------------------------------------------------------------------------
(* Claims about the handlers and the store (ControllerSpec).               *)

\* C14: at no point are two solveLanding calls in flight for the store: a
\* new solve is not started before the previous one has resolved or rejected.
C14_OneSolveInFlight == Len(calls) <= 1

\* Call c has been superseded: a newer solve was requested after it, or the
\* store was reset or a scenario loaded while it was in flight.  (The handler
\* of c set the status 'solving'; in the G-FOLD mode only reset() and
\* loadScenario() set it back to 'idle'.)
Superseded(c) ==
    \/ c.id < requested
    \/ status = "idle" /\ simulationMode = "gfold"

\* C15: the result of a superseded solve is ignored when it arrives: it
\* changes neither the trajectory nor the status nor the playback time of the
\* store.
C15_LateResultIgnored ==
    [][\A k \in 1..Len(calls) :
          (settled' # settled /\ settled'.id = calls[k].id
              /\ Superseded(calls[k])) =>
          UNCHANGED <<trajectory, status, playbackTime>>]_vars

----------------------------------------------------------------------------
\* C17: the flight from createInitialState() with gravity 3.72, mass 25000,
\* maxThrust 800000, burnDuration 10, ground at 0 and ticks of 0.1 s
\* eventually reaches a terminal state, and in a terminal state exactly one
\* of hasCrashed and hasLandedSafely is true and the altitude is 0.
C17_FlightEnds ==
    /\ <>Terminal(simplePhysics)
    /\ [](Terminal(simplePhysics) =>
            /\ simplePhysics.hasCrashed # simplePhysics.hasLandedSafely
            /\ simplePhysics.position[3] = 0)

\* The flight is over, after a burn of 10 s and a fall from above the pad.
C17_Witness ==
    /\ Terminal(simplePhysics)
    /\ simplePhysics.elapsedTime > simpleConfig.burnDuration
    /\ simplePhysics.position[3] = 0
    /\ simplePhysics.hasCrashed
    /\ simpleConfig \in FlightConfigs

----------------------------------------------------------------------------
\* The number K of the rendered trajectory's last sample.
RenderedK == Len(rendered.trajectory.positions) - 1

\* C18: at an integer playback time k within 0..K the rendered rocket
\* position is the sample P[k], and the frame is a function of the
\* trajectory and the playback time: rendering them again, whatever else the
\* store holds, gives the same position, velocity and thrust.
C18_InterpolationExact ==
    (rendered.shown /\ rendered.trajectory # NoTrajectory) =>
        /\ \A k \in 0..RenderedK :
              rendered.playbackTime = R(k) =>
                 /\ ~rendered.scene.threw
                 /\ rendered.scene.position =
                       [i \in 1..3 |-> R(rendered.trajectory.positions[k + 1][i])]
        /\ \A i \in 1..Len(scenarios) :
              /\ sceneView(rendered.trajectory, rendered.playbackTime,
                           scenarios[i]) = rendered.scene
              /\ telemetryView(rendered.trajectory, rendered.playbackTime)
                    = rendered.telemetry

\* A frame at the interior sample of a trajectory of three samples, whose
\* neighbours lie elsewhere.
C18_Witness ==
    /\ rendered.shown
    /\ rendered.trajectory # NoTrajectory
    /\ RenderedK = 2
    /\ rendered.playbackTime = R(1)
    /\ rendered.scene.position = <<R(0), R(0), R(1)>>
    /\ rendered.trajectory.positions[1] # rendered.trajectory.positions[2]
    /\ rendered.trajectory.positions[3] # rendered.trajectory.positions[2]

\* A point of the segment from P[j] to the sample after it (P[K] after P[K]).
OnSegment(pos, P, j) ==
    LET a == P[j + 1]
        b == P[Min(j + 1, Len(P) - 1) + 1]
    IN  \E n \in 0..2 :
           \A i \in 1..3 :
              REq(pos[i], RAdd(R(a[i]), RMul(<<n, 2>>, R(b[i] - a[i]))))

\* C19: for every playback time, below 0 and above K included, the frame
\* reads only indices within 0..K and shows a position on the segment
\* between two samples: P[0] for t <= 0 and P[K] for t >= K.
C19_IndexClamped ==
    (rendered.shown /\ rendered.trajectory # NoTrajectory) =>
        /\ ~rendered.scene.threw
        /\ ~rendered.telemetry.threw
        /\ rendered.scene.reads \subseteq 0..RenderedK
        /\ rendered.telemetry.reads \subseteq 0..RenderedK
        /\ \E j \in 0..RenderedK :
              OnSegment(rendered.scene.position, rendered.trajectory.positions, j)
        /\ RLe(rendered.playbackTime, R(0)) =>
              rendered.scene.position =
                 [i \in 1..3 |-> R(rendered.trajectory.positions[1][i])]
        /\ RLe(R(RenderedK), rendered.playbackTime) =>
              rendered.scene.position =
                 [i \in 1..3 |->
                     R(rendered.trajectory.positions[RenderedK + 1][i])]

----------------------------------------------------------------------------
\* The Euclidean norm of v on the grid of the solver model: the least
\* integer that is no less than it (the norm itself when that is an integer).
GridNorm(v) ==
    CHOOSE n \in 0..SqNorm(v) :
        /\ n * n >= SqNorm(v)
        /\ n = 0 \/ (n - 1) * (n - 1) < SqNorm(v)

RECURSIVE ThrustSum(_)
ThrustSum(F) == IF F = <<>> THEN 0 ELSE GridNorm(F[1]) + ThrustSum(Tail(F))

----------------------------------------------------------------------------
\* C21: after reset() and after loadScenario() the store holds no
\* trajectory, status is 'idle' and playbackTime is 0; after reset() the
\* errorMessage is null as well and simplePhysics is createInitialState().
C21_ResetAndLoadDiscard ==
    [][/\ (handleReset \/ selectGfoldMode) =>
            /\ trajectory' = NoTrajectory
            /\ status' = "idle"
            /\ playbackTime' = R(0)
            /\ errorMessage' = NoErrorMessage
            /\ simplePhysics' = createInitialState
       /\ loadScenario =>
            /\ trajectory' = NoTrajectory
            /\ status' = "idle"
            /\ playbackTime' = R(0)]_vars

\* A store in which every field that reset() writes differs from what
\* reset() gives it, with the Reset button and the scenario selector shown.
C21_Witness ==
    /\ simulationMode = "gfold"
    /\ trajectory # NoTrajectory
    /\ status = "playing"
    /\ playbackTime # R(0)
    /\ errorMessage # NoErrorMessage
    /\ simplePhysics # createInitialState
    /\ ENABLED handleReset
    /\ ENABLED loadScenario

----------------------------------------------------------------------------
\* C22: a tick of a state that is not over detects a ground collision exactly
\* when the new altitude is <= groundHeight and the new vertical velocity is
\* < 0; it then puts the altitude at groundHeight and, when the absolute
\* vertical velocity is < 5, sets hasLandedSafely and zeroes the velocity,
\* otherwise (5 included) sets hasCrashed and keeps the velocity; without a
\* collision both flags stay false.
C22_CollisionClassified ==
    ~Terminal(simplePhysics) =>
        \A c \in PhysicsConfigs, dt \in Dts, gh \in GroundHeights :
            LET n == stepPhysics(simplePhysics, c, dt, gh)
                v == newVelocity(simplePhysics, c, dt)
                q == newPosition(simplePhysics, c, dt)
            IN  IF q[3] <= gh /\ v[3] < 0
                THEN /\ n.position = <<q[1], q[2], gh>>
                     /\ IF Abs(v[3]) < SAFE_LANDING_SPEED
                        THEN /\ n.hasLandedSafely /\ ~n.hasCrashed
                             /\ n.velocity = <<0, 0, 0>>
                        ELSE /\ n.hasCrashed /\ ~n.hasLandedSafely
                             /\ n.velocity = v
                ELSE /\ ~n.hasCrashed /\ ~n.hasLandedSafely
                     /\ n.position = q
                     /\ n.velocity = v

\* A crash at exactly the safe landing speed, on a raised ground.
C22_Witness ==
    /\ simplePhysics.hasCrashed
    /\ ~simplePhysics.hasLandedSafely
    /\ simplePhysics.velocity[3] = -SAFE_LANDING_SPEED
    /\ simplePhysics.position[3] \in GroundHeights \ {0}

----------------------------------------------------------------------------
\* C23: a tick of a state that is not over returns the engine on exactly when
\* the elapsed time it returns is < burnDuration, with thrust [0,0,maxThrust]
\* and a vertical acceleration of maxThrust/mass - gravity when on, and with
\* thrust [0,0,0] and the acceleration -gravity when off; under the same
\* config a later tick of a state with the engine off leaves it off.
C23_EngineCutOff ==
    ~Terminal(simplePhysics) =>
        \A c \in PhysicsConfigs, dt \in Dts, gh \in GroundHeights :
            LET n == stepPhysics(simplePhysics, c, dt, gh)
                az == IF n.isEngineOn
                      THEN (c.maxThrust \div c.mass) - c.gravity
                      ELSE -c.gravity
            IN  /\ n.isEngineOn <=> n.elapsedTime < c.burnDuration
                /\ n.thrust = IF n.isEngineOn THEN <<0, 0, c.maxThrust>>
                              ELSE <<0, 0, 0>>
                /\ ~n.hasLandedSafely =>
                      n.velocity[3] = simplePhysics.velocity[3] + az * dt
                /\ \A dt2 \in Dts, gh2 \in GroundHeights :
                      ~n.isEngineOn => ~stepPhysics(n, c, dt2, gh2).isEngineOn

\* A flight past its burn: the engine was on, is off now, and the rocket
\* is still in the air.
C23_Witness ==
    /\ ~Terminal(simplePhysics)
    /\ ~simplePhysics.isEngineOn
    /\ simplePhysics.thrust = <<0, 0, 0>>
    /\ simpleConfig.burnDuration > 0
    /\ simpleConfig.maxThrust > 0
    /\ simplePhysics.elapsedTime > simpleConfig.burnDuration
    /\ simplePhysics.position[3] > createInitialState.position[3]

----------------------------------------------------------------------------
\* The vertical acceleration of a tick of state s under config c: the engine
\* burns when the elapsed time after the tick is below burnDuration.
TickAccel(s, c, dt) ==
    IF s.elapsedTime + dt < c.burnDuration
    THEN (c.maxThrust \div c.mass) - c.gravity
    ELSE -c.gravity

\* C24: a tick of a state that is not over is a semi-implicit Euler step:
\* the new vertical velocity is the old one + acceleration*dt, and the new
\* position on every axis is the old position + the NEW velocity*dt.  The
\* collision handling that follows the step overwrites only the altitude
\* (with groundHeight) and, on a safe landing, the velocity.
C24_SemiImplicitEuler ==
    ~Terminal(simplePhysics) =>
        \A dt \in Dts, gh \in GroundHeights :
            LET s == simplePhysics
                n == stepPhysics(s, simpleConfig, dt, gh)
                vz == s.velocity[3] + TickAccel(s, simpleConfig, dt) * dt
                hit == s.position[3] + vz * dt <= gh /\ vz < 0
            IN  /\ n.position[1] = s.position[1] + s.velocity[1] * dt
                /\ n.position[2] = s.position[2] + s.velocity[2] * dt
                /\ ~hit => /\ n.velocity[3] = vz
                           /\ n.position[3] = s.position[3] + vz * dt
                /\ hit => /\ n.position[3] = gh
                          /\ n.velocity[3] \in {vz, 0}

\* A state after a tick in the air in which the new velocity differs from
\* the old one, so that the two Euler schemes give different altitudes.
C24_Witness ==
    /\ ~Terminal(simplePhysics)
    /\ simplePhysics.elapsedTime = 1
    /\ simplePhysics.velocity[3] = 4
    /\ simplePhysics.position = <<3, -2, 29>>

\* C25: a tick that does not end in a safe landing leaves the two
\* horizontal velocity components unchanged, for every config and dt.
C25_HorizontalUnforced ==
    \A c \in PhysicsConfigs, dt \in Dts, gh \in GroundHeights :
        LET n == stepPhysics(simplePhysics, c, dt, gh)
        IN  ~n.hasLandedSafely =>
               /\ n.velocity[1] = simplePhysics.velocity[1]
               /\ n.velocity[2] = simplePhysics.velocity[2]

\* A state that drifts sideways after ticks with the engine on and off.
C25_Witness ==
    /\ simplePhysics.velocity[1] # 0
    /\ simplePhysics.velocity[2] # 0
    /\ simplePhysics.elapsedTime > simpleConfig.burnDuration
    /\ simpleConfig.burnDuration > 0
    /\ simpleConfig.maxThrust > 0
    /\ ~simplePhysics.hasLandedSafely

----------------------------------------------------------------------------
\* The lower bracketing index of the time t among the samples 0..K: the
\* last sample that is not after t.
Bracket(t, K) ==
    CHOOSE i \in 0..K :
        /\ RLe(R(i), t)
        /\ \A j \in 0..K : RLe(R(j), t) => j <= i

\* C26: at a playback time t >= 0 the velocity and the thrust shown, by the
\* scene and by the telemetry, are the samples at the lower bracketing index
\* floor(t), clamped to the last index K, never a blend with the next
\* sample; at the index K, which has no thrust sample, the thrust shown is
\* [0,0,0].
C26_PiecewiseConstant ==
    (/\ rendered.shown
     /\ rendered.trajectory # NoTrajectory
     /\ RLe(R(0), rendered.playbackTime)) =>
        LET T == rendered.trajectory
            i == Bracket(rendered.playbackTime, RenderedK)
            thrust == IF i < RenderedK THEN T.thrusts[i + 1] ELSE <<0, 0, 0>>
        IN  /\ ~rendered.scene.threw
            /\ ~rendered.telemetry.threw
            /\ rendered.scene.velocity = T.velocities[i + 1]
            /\ rendered.telemetry.velocity = T.velocities[i + 1]
            /\ rendered.scene.thrust = thrust
            /\ rendered.telemetry.thrust = thrust

\* A frame halfway between the samples 1 and 2 of a trajectory whose
\* velocities there differ: the velocity shown is the one of sample 1.
C26_Witness ==
    /\ rendered.shown
    /\ rendered.trajectory # NoTrajectory
    /\ RenderedK = 2
    /\ rendered.playbackTime = <<3, 2>>
    /\ rendered.trajectory.velocities[2] # rendered.trajectory.velocities[3]
    /\ rendered.scene.velocity = rendered.trajectory.velocities[2]
    /\ rendered.scene.thrust = rendered.trajectory.thrusts[2]
    /\ rendered.scene.thrust # <<0, 0, 0>>

----------------------------------------------------------------------------
\* The calls that have invoked loadWasm() (line 37) and await it: a call is
\* at "init" only if it found wasmLoaded false and invoked loadWasm().
AwaitingLoadWasm == {k \in 1..Len(calls) : calls[k].pc = "init"}

\* C27: over any sequence of solveLanding calls, those that start while an
\* earlier initialisation is still awaited included, loadWasm is invoked at
\* most once: no call invokes it while another call awaits it, and none
\* invokes it once wasmLoaded is set.
C27_LoadWasmOnce ==
    /\ Cardinality(AwaitingLoadWasm) <= 1
    /\ wasmLoaded => AwaitingLoadWasm = {}

----------------------------------------------------------------------------
\* C28: in every state the store reaches through the actions of the control
\* panel and the completions of the solver, status is 'ready', 'playing' or
\* 'paused' only while there is a trajectory.
C28_PlaybackStatusHasTrajectory ==
    status \in {"ready", "playing", "paused"} => trajectory # NoTrajectory

\* A playback that ran to its end: paused at the last sample of the
\* trajectory a solve left in the store.
C28_Witness ==
    /\ status = "paused"
    /\ trajectory # NoTrajectory
    /\ playbackTime = R(Len(trajectory.positions) - 1)
    /\ settled.outcome.kind = "resolved"

----------------------------------------------------------------------------
\* The last sample index K of the trajectory in the store.
StoreK == Len(trajectory.positions) - 1

\* C29: while status is 'playing' with a trajectory of K+1 samples, the
\* playback never puts playbackTime above K, and it eventually puts
\* playbackTime at exactly K and status at 'paused', after which no frame
\* is scheduled.
C29_PlaybackEnds ==
    /\ []((status \in {"playing", "paused"} /\ trajectory # NoTrajectory) =>
             RLe(playbackTime, R(StoreK)))
    /\ (status = "playing" /\ trajectory # NoTrajectory)
          ~> (status = "paused" /\ trajectory # NoTrajectory
                /\ playbackTime = R(StoreK))
    /\ [](status = "paused" => ~ENABLED playbackFrame)

\* The end of a playback that started in the middle of a trajectory of
\* three samples: paused at K = 2.
C29_Witness ==
    /\ status = "paused"
    /\ trajectory # NoTrajectory
    /\ StoreK = 2
    /\ playbackTime = R(StoreK)

----------------------------------------------------------------------------
\* C30: for a fixed groundHeight <= 25 and dt > 0, every state reached from
\* createInitialState() by ticks has an altitude >= groundHeight, and every
\* terminal state has the altitude groundHeight.  Stated as what each tick
\* preserves: createInitialState() is at or above every such ground, and a
\* tick of a state in the air at or above the ground gh returns a state at
\* or above gh, which is at gh exactly when it is terminal.
C30_AboveGround ==
    \A gh \in GroundHeights :
        /\ gh <= createInitialState.position[3]
        /\ (~Terminal(simplePhysics) /\ simplePhysics.position[3] >= gh) =>
              \A c \in PhysicsConfigs, dt \in Dts :
                  LET n == stepPhysics(simplePhysics, c, dt, gh)
                  IN  /\ n.position[3] >= gh
                      /\ Terminal(n) => n.position[3] = gh

\* A flight that rose with the engine on, fell back and ended on a raised
\* ground, at its height.
C30_Witness ==
    /\ Terminal(simplePhysics)
    /\ simplePhysics.position[3] \in GroundHeights \ {0}
    /\ simplePhysics.position[3] < createInitialState.position[3]
    /\ simplePhysics.elapsedTime > simpleConfig.burnDuration
    /\ simpleConfig.burnDuration > 0
    /\ simpleConfig.maxThrust > 0

====
